---- MODULE Spec2Model ----
(***************************************************************************)
(* Model of app.py: the soil-health scoring function, the weather, LLM and *)
(* text-to-speech helpers, the "Analyze Soil" handler and the history      *)
(* section, run by concurrent Streamlit sessions over one SQLite store.    *)
(* pH values are integers in tenths (7.0 is 70).                           *)
(***************************************************************************)
EXTENDS Integers, Sequences, FiniteSets, TLC

VARIABLES
    \* ---- process-wide state ----
    store,          \* rows of table soil_reports, in insertion order
    dbUp,           \* whether soil_reports.db can be opened and written
    secrets,        \* the keys present in st.secrets
    histCache,      \* st.cache_data entry of get_history()
    analysisCache,  \* st.cache_data entries of get_analysis(...)
    now,            \* wall clock, in ticks
    \* ---- one script run per browser session ----
    pc,             \* position of the session's script run
    button,         \* whether the run was started by "Analyze Soil"
    form,           \* widget values the run was started with
    startMax,       \* highest id stored when the run's insert started
    report_id,      \* id of the row the run inserted (0: none)
    final_report,   \* the report the run displayed
    audio_buffer,   \* result of text_to_speech in the run
    reports,        \* result of get_history() in the run
    crash,          \* the exception that ended the run ("none": none)
    \* ---- harness of calculate_score ----
    score_pc, score_in, score_out, score_shown,
    \* ---- harness of get_weather ----
    weather_pc, weather_in, weather_out

appVars == <<store, dbUp, secrets, histCache, analysisCache, now,
             pc, button, form, startMax, report_id, final_report, audio_buffer,
             reports, crash>>
scoreVars == <<score_pc, score_in, score_out, score_shown>>
weatherVars == <<weather_pc, weather_in, weather_out>>
vars == <<appVars, scoreVars, weatherVars>>

----------------------------------------------------------------------------
\* Bounds of the model
MaxReports == 6
MaxConcurrentReports == 3
MaxAdviceReports == 2
MaxClock == 2
MaxCityLen == 2

\* Program constants
PhMin == 0
PhMax == 140
HistoryLimit == 5

\* Expiry period the cache of get_analysis is said to have, in ticks
ExpiryTicks == 1

Sessions == {"s1", "s2"}
Levels == {"Low", "Medium", "High"}

----------------------------------------------------------------------------
\* Pure helpers

Max(a, b) == IF a > b THEN a ELSE b

calculate_score_NoPhPenaltyAtBounds(ph, nitrogen, phosphorus, potassium, organic) ==
    LET s1 == IF ph >= 80 \/ ph <= 55 THEN 100 - 15 ELSE 100
        s2 == IF nitrogen = "Low" THEN s1 - 20 ELSE s1
        s3 == IF phosphorus = "Low" THEN s2 - 15 ELSE s2
        s4 == IF potassium = "Low" THEN s3 - 15 ELSE s3
        s5 == IF organic = "Low" THEN s4 - 20 ELSE s4
    IN  Max(s5, 0)

calculate_score_PhBonus(ph, nitrogen, phosphorus, potassium, organic) ==
    LET s1 == IF ph > 80 \/ ph < 55 THEN 100 + 15 ELSE 100
        s2 == IF nitrogen = "Low" THEN s1 - 20 ELSE s1
        s3 == IF phosphorus = "Low" THEN s2 - 15 ELSE s2
        s4 == IF potassium = "Low" THEN s3 - 15 ELSE s3
        s5 == IF organic = "Low" THEN s4 - 20 ELSE s4
    IN  Max(s5, 0)

calculate_score_PhPenalty20(ph, nitrogen, phosphorus, potassium, organic) ==
    LET s1 == IF ph > 80 \/ ph < 55 THEN 100 - 20 ELSE 100
        s2 == IF nitrogen = "Low" THEN s1 - 20 ELSE s1
        s3 == IF phosphorus = "Low" THEN s2 - 15 ELSE s2
        s4 == IF potassium = "Low" THEN s3 - 15 ELSE s3
        s5 == IF organic = "Low" THEN s4 - 20 ELSE s4
    IN  Max(s5, 0)

calculate_score(ph, nitrogen, phosphorus, potassium, organic) ==
    LET s1 == IF ph > 80 \/ ph < 55 THEN 100 - 15 ELSE 100
        s2 == IF nitrogen = "Low" THEN s1 - 20 ELSE s1
        s3 == IF phosphorus = "Low" THEN s2 - 15 ELSE s2
        s4 == IF potassium = "Low" THEN s3 - 15 ELSE s3
        s5 == IF organic = "Low" THEN s4 - 20 ELSE s4
    IN  Max(s5, 0)

fertilizer_advice(nitrogen) ==
    IF nitrogen = "Low" THEN "urea 45-50 kg per acre" ELSE "nitrogen balanced"

\* str(n) of a Python int, as the sequence of its characters
DigitChar(d) == <<"0", "1", "2", "3", "4", "5", "6", "7", "8", "9">>[d + 1]

RECURSIVE NatToStr(_)
NatToStr(n) ==
    IF n < 10 THEN <<DigitChar(n)>>
    ELSE Append(NatToStr(n \div 10), DigitChar(n % 10))

IntToStr(n) == IF n < 0 THEN <<"-">> \o NatToStr(-n) ELSE NatToStr(n)

\* the number a decimal text denotes (used to read a displayed score back)
DigitVal(c) == CHOOSE d \in 0..9 : DigitChar(d) = c

RECURSIVE StrToNat(_)
StrToNat(t) ==
    IF t = <<>> THEN 0
    ELSE 10 * StrToNat(SubSeq(t, 1, Len(t) - 1)) + DigitVal(t[Len(t)])

StrToInt(t) == IF t # <<>> /\ t[1] = "-" THEN -StrToNat(Tail(t)) ELSE StrToNat(t)

\* the part of final_report_template that depends on the run
final_report_template(score, weather_info) ==
    [score |-> IntToStr(score), weather |-> weather_info]

----------------------------------------------------------------------------
\* get_weather

\* str.strip(): drop the whitespace at both ends
RECURSIVE LStrip(_)
LStrip(t) == IF t # <<>> /\ t[1] = " " THEN LStrip(Tail(t)) ELSE t

RECURSIVE RStrip(_)
RStrip(t) ==
    IF t # <<>> /\ t[Len(t)] = " " THEN RStrip(SubSeq(t, 1, Len(t) - 1)) ELSE t

Strip(t) == RStrip(LStrip(t))

Placeholder == [kind |-> "unavailable"]
Summary(temp, description) ==
    [kind |-> "summary", temp |-> temp, description |-> description]

\* The outcomes of requests.get(url).json(): the call raises, or yields a
\* JSON object; an object is a function from the keys it has.
ErrorBody == [cod |-> 401]
MainValues == {[humidity |-> 50], [temp |-> 30]}
WeatherValues == {<<>>, <<[id |-> 800]>>, <<[description |-> "clear"]>>}
JsonBodies ==
    {ErrorBody}
    \cup {[main |-> m] : m \in MainValues}
    \cup {[weather |-> w] : w \in WeatherValues}
    \cup {[main |-> m, weather |-> w] : m \in MainValues, w \in WeatherValues}
Responses ==
    {[raises |-> TRUE, data |-> ErrorBody]}
    \cup {[raises |-> FALSE, data |-> d] : d \in JsonBodies}

WellFormed(data) ==
    /\ "main" \in DOMAIN data
    /\ "temp" \in DOMAIN data["main"]
    /\ "weather" \in DOMAIN data
    /\ Len(data["weather"]) >= 1
    /\ "description" \in DOMAIN data["weather"][1]

\* the body of the try block: an exception, or the formatted summary
weather_request(city, api_key, resp) ==
    IF resp.raises \/ ~WellFormed(resp.data)
    THEN [raised |-> TRUE, value |-> Placeholder]
    ELSE [raised |-> FALSE,
          value |-> Summary(resp.data["main"]["temp"],
                            resp.data["weather"][1]["description"])]

get_weather_NoExcept(api_key, city, resp) ==
    IF api_key = "" \/ Strip(city) = <<>>
    THEN [raised |-> FALSE, value |-> Placeholder]
    ELSE weather_request(city, api_key, resp)

get_weather(api_key, city, resp) ==
    IF api_key = "" \/ Strip(city) = <<>>
    THEN [raised |-> FALSE, value |-> Placeholder]
    ELSE LET r == weather_request(city, api_key, resp)
         IN  IF r.raised
             THEN [raised |-> FALSE, value |-> Placeholder]
             ELSE r

\* st.secrets.get(name, "")
SecretKeys == {"OPENROUTER_API_KEY", "OPENWEATHER_API_KEY", "SARVAM_API_KEY"}
secrets_get(sec, name) == IF name \in sec THEN "key" ELSE ""

----------------------------------------------------------------------------
\* text_to_speech: None without the key or when the conversion fails, else
\* the audio. The text (cut to 1500 characters) does not decide the outcome.

TtsOutcomes == {"ok", "error"}

text_to_speech(api_key, outcome) ==
    IF api_key = "" THEN [raised |-> FALSE, value |-> "None"]
    ELSE IF outcome = "ok" THEN [raised |-> FALSE, value |-> "audio"]
    ELSE [raised |-> FALSE, value |-> "None"]

----------------------------------------------------------------------------
\* The store: table soil_reports of soil_reports.db

\* the widgets' initial values, and one other filled-in form
DefaultForm ==
    [farmer_name |-> "", ph |-> 70, nitrogen |-> "Low", phosphorus |-> "Low",
     potassium |-> "Low", organic |-> "Low"]
Forms ==
    {DefaultForm,
     [farmer_name |-> "asha", ph |-> 90, nitrogen |-> "Medium",
      phosphorus |-> "High", potassium |-> "Low", organic |-> "Medium"]}

SoilReport(id, f) ==
    [id |-> id, farmer_name |-> f.farmer_name, ph |-> f.ph,
     nitrogen |-> f.nitrogen, phosphorus |-> f.phosphorus,
     potassium |-> f.potassium, organic_carbon |-> f.organic]

Ids(rows) == {rows[i].id : i \in 1..Len(rows)}
MaxId(rows) == IF rows = <<>> THEN 0 ELSE CHOOSE m \in Ids(rows) : \A i \in Ids(rows) : i <= m

\* INTEGER PRIMARY KEY of SQLite: one more than the largest id in the table
NextId_Reuse(rows) == IF rows = <<>> THEN 1 ELSE MaxId(rows)

NextId(rows) == MaxId(rows) + 1

\* session.add(report); session.commit()
insert(rows, f) == Append(rows, SoilReport(NextId(rows), f))

\* ORDER BY id DESC
RemoveAt(rows, i) == SubSeq(rows, 1, i - 1) \o SubSeq(rows, i + 1, Len(rows))

RECURSIVE OrderByIdDesc(_)
OrderByIdDesc(rows) ==
    IF rows = <<>> THEN <<>>
    ELSE LET i == CHOOSE i \in 1..Len(rows) :
                      \A j \in 1..Len(rows) : rows[j].id <= rows[i].id
         IN  <<rows[i]>> \o OrderByIdDesc(RemoveAt(rows, i))

\* LIMIT n
Limit(rows, n) == SubSeq(rows, 1, IF Len(rows) < n THEN Len(rows) ELSE n)

\* session.query(SoilReport).order_by(SoilReport.id.desc()).limit(5).all()
history_query(rows) == Limit(OrderByIdDesc(rows), HistoryLimit)

\* get_history under st.cache_data: the entry, once made, is what is returned
NoEntry == [hit |-> FALSE, value |-> <<>>]

get_history(cache, rows, up) ==
    IF cache.hit THEN [raised |-> FALSE, value |-> cache.value, cache |-> cache]
    ELSE IF up THEN [raised |-> FALSE, value |-> history_query(rows),
                     cache |-> [hit |-> TRUE, value |-> history_query(rows)]]
    ELSE [raised |-> TRUE, value |-> <<>>, cache |-> cache]

----------------------------------------------------------------------------
\* get_analysis under st.cache_data

LlmOutcomes == {"ok", "error", "no_choices"}

AnalysisKey(f, weather_info) ==
    <<f.ph, f.nitrogen, f.phosphorus, f.potassium, f.organic, weather_info>>

Cached(cache, key) == \E e \in cache : e.key = key
Entry(cache, key) == CHOOSE e \in cache : e.key = key

\* client.chat.completions.create(...) and response.choices[0].message.content
llm_request(outcome) ==
    IF outcome = "ok" THEN [raised |-> FALSE, value |-> "advice"]
    ELSE [raised |-> TRUE, value |-> ""]

get_analysis(cache, key, outcome, t) ==
    IF Cached(cache, key)
    THEN [raised |-> FALSE, value |-> Entry(cache, key).text, cache |-> cache]
    ELSE LET r == llm_request(outcome)
         IN  IF r.raised
             THEN [raised |-> TRUE, value |-> "", cache |-> cache]
             ELSE [raised |-> FALSE, value |-> r.value,
                   cache |-> cache \cup {[key |-> key, text |-> r.value, at |-> t]}]

----------------------------------------------------------------------------
\* The script, run once per interaction of a session

RECURSIVE Texts(_)
Texts(n) ==
    IF n = 0 THEN {<<>>}
    ELSE Texts(n - 1)
         \cup {Append(t, c) : t \in {u \in Texts(n - 1) : Len(u) = n - 1},
                              c \in {" ", "a"}}

Cities == Texts(MaxCityLen)

NoReport == [score |-> <<>>, weather |-> Placeholder, analysis |-> "", advice |-> ""]

Shared == <<store, dbUp, secrets, histCache, analysisCache, now>>

Raise(s, exc) ==
    /\ pc' = [pc EXCEPT ![s] = "crashed"]
    /\ crash' = [crash EXCEPT ![s] = exc]

\* Lines 1-140 of a run: create_all(engine) needs the database, and the
\* OpenAI client is built from st.secrets["OPENROUTER_API_KEY"].
SetupError ==
    IF ~dbUp THEN "storage"
    ELSE IF "OPENROUTER_API_KEY" \notin secrets THEN "secrets"
    ELSE "none"

Pending == Cardinality({s \in Sessions : pc[s] = "commit"})

\* The user presses "Analyze Soil": the run builds the report and adds it to
\* the session.
Press(s, f, limit) ==
    /\ pc[s] = "idle"
    /\ Len(store) + Pending < limit
    /\ button' = [button EXCEPT ![s] = TRUE]
    /\ form' = [form EXCEPT ![s] = f]
    /\ IF SetupError # "none"
       THEN /\ Raise(s, SetupError)
            /\ UNCHANGED startMax
       ELSE /\ pc' = [pc EXCEPT ![s] = "commit"]
            /\ startMax' = [startMax EXCEPT ![s] = MaxId(store)]
            /\ UNCHANGED crash
    /\ UNCHANGED <<Shared, report_id, final_report, audio_buffer, reports>>

\* session.commit()
Commit(s) ==
    /\ pc[s] = "commit"
    /\ IF dbUp
       THEN /\ store' = insert(store, form[s])
            /\ report_id' = [report_id EXCEPT ![s] = NextId(store)]
            /\ pc' = [pc EXCEPT ![s] = "analyze"]
            /\ UNCHANGED crash
       ELSE /\ Raise(s, "storage")
            /\ UNCHANGED <<store, report_id>>
    /\ UNCHANGED <<dbUp, secrets, histCache, analysisCache, now>>
    /\ UNCHANGED <<button, form, startMax, final_report, audio_buffer, reports>>

\* Score, weather, LLM, TTS, PDF and the display of the final report
Analyze(s, city, resp, llm, tts) ==
    /\ pc[s] = "analyze"
    /\ LET f == form[s]
           score == calculate_score(f.ph, f.nitrogen, f.phosphorus,
                                    f.potassium, f.organic)
           w == get_weather(secrets_get(secrets, "OPENWEATHER_API_KEY"), city, resp)
           a == get_analysis(analysisCache, AnalysisKey(f, w.value), llm, now)
           t == text_to_speech(secrets_get(secrets, "SARVAM_API_KEY"), tts)
       IN  IF w.raised
           THEN /\ Raise(s, "weather")
                /\ UNCHANGED <<analysisCache, final_report, audio_buffer>>
           ELSE IF a.raised
           THEN /\ Raise(s, "llm")
                /\ UNCHANGED <<analysisCache, final_report, audio_buffer>>
           ELSE IF t.raised
           THEN /\ Raise(s, "tts")
                /\ analysisCache' = a.cache
                /\ UNCHANGED <<final_report, audio_buffer>>
           ELSE /\ analysisCache' = a.cache
                /\ final_report' = [final_report EXCEPT ![s] =
                       [score |-> final_report_template(score, w.value).score,
                        weather |-> final_report_template(score, w.value).weather,
                        analysis |-> a.value,
                        advice |-> fertilizer_advice(f.nitrogen)]]
                /\ audio_buffer' = [audio_buffer EXCEPT ![s] = t.value]
                /\ pc' = [pc EXCEPT ![s] = "history"]
                /\ UNCHANGED crash
    /\ UNCHANGED <<store, dbUp, secrets, histCache, now>>
    /\ UNCHANGED <<button, form, startMax, report_id, reports>>

\* A rerun without the button: only the history section runs
View(s) ==
    /\ pc[s] = "idle"
    /\ button' = [button EXCEPT ![s] = FALSE]
    /\ IF SetupError # "none"
       THEN Raise(s, SetupError)
       ELSE /\ pc' = [pc EXCEPT ![s] = "history"]
            /\ UNCHANGED crash
    /\ UNCHANGED <<Shared, form, startMax, report_id, final_report, audio_buffer, reports>>

\* reports = get_history()
History(s) ==
    /\ pc[s] = "history"
    /\ LET h == get_history(histCache, store, dbUp)
       IN  IF h.raised
           THEN /\ Raise(s, "storage")
                /\ UNCHANGED <<histCache, reports>>
           ELSE /\ histCache' = h.cache
                /\ reports' = [reports EXCEPT ![s] = h.value]
                /\ pc' = [pc EXCEPT ![s] = "done"]
                /\ UNCHANGED crash
    /\ UNCHANGED <<store, dbUp, secrets, analysisCache, now>>
    /\ UNCHANGED <<button, form, startMax, report_id, final_report, audio_buffer>>

\* The run is over (normally or by an exception); its variables are gone
\* and the session can interact again.
Finish(s) ==
    /\ pc[s] \in {"done", "crashed"}
    /\ pc' = [pc EXCEPT ![s] = "idle"]
    /\ crash' = [crash EXCEPT ![s] = "none"]
    /\ button' = [button EXCEPT ![s] = FALSE]
    /\ form' = [form EXCEPT ![s] = DefaultForm]
    /\ startMax' = [startMax EXCEPT ![s] = 0]
    /\ report_id' = [report_id EXCEPT ![s] = 0]
    /\ final_report' = [final_report EXCEPT ![s] = NoReport]
    /\ audio_buffer' = [audio_buffer EXCEPT ![s] = "None"]
    /\ reports' = [reports EXCEPT ![s] = <<>>]
    /\ UNCHANGED Shared

\* The environment: time passes, the database file becomes unavailable
\* and available again
Tick ==
    /\ now < MaxClock
    /\ now' = now + 1
    /\ UNCHANGED <<store, dbUp, secrets, histCache, analysisCache>>
    /\ UNCHANGED <<pc, crash, button, form, startMax, report_id, final_report,
                   audio_buffer, reports>>

StorageDown ==
    /\ dbUp
    /\ dbUp' = FALSE
    /\ UNCHANGED <<store, secrets, histCache, analysisCache, now>>
    /\ UNCHANGED <<pc, crash, button, form, startMax, report_id, final_report,
                   audio_buffer, reports>>

StorageUp ==
    /\ ~dbUp
    /\ dbUp' = TRUE
    /\ UNCHANGED <<store, secrets, histCache, analysisCache, now>>
    /\ UNCHANGED <<pc, crash, button, form, startMax, report_id, final_report,
                   audio_buffer, reports>>

ScoreIdle ==
    /\ score_pc = "off"
    /\ score_in = DefaultForm
    /\ score_out = 0
    /\ score_shown = <<>>

WeatherIdle ==
    /\ weather_pc = "off"
    /\ weather_in = [api_key |-> "", city |-> <<>>, resp |-> [raises |-> TRUE, data |-> ErrorBody]]
    /\ weather_out = [raised |-> FALSE, value |-> Placeholder]

AppIdle ==
    /\ store = <<>>
    /\ dbUp = TRUE
    /\ histCache = NoEntry
    /\ analysisCache = {}
    /\ now = 0
    /\ pc = [s \in Sessions |-> "idle"]
    /\ crash = [s \in Sessions |-> "none"]
    /\ button = [s \in Sessions |-> FALSE]
    /\ form = [s \in Sessions |-> DefaultForm]
    /\ startMax = [s \in Sessions |-> 0]
    /\ report_id = [s \in Sessions |-> 0]
    /\ final_report = [s \in Sessions |-> NoReport]
    /\ audio_buffer = [s \in Sessions |-> "None"]
    /\ reports = [s \in Sessions |-> <<>>]

AppOff == AppIdle /\ secrets = SecretKeys
NoApp == UNCHANGED appVars
NoHarness == UNCHANGED <<scoreVars, weatherVars>>

GoodResponse ==
    [raises |-> FALSE,
     data |-> [main |-> [temp |-> 30], weather |-> <<[description |-> "clear"]>>]]

----------------------------------------------------------------------------
\* Spec: one session, submissions and history views while the database
\* comes and goes.
Init ==
    /\ AppIdle
    /\ secrets = SecretKeys
    /\ ScoreIdle
    /\ WeatherIdle

Next ==
    \/ \E f \in Forms : Press("s1", f, MaxReports) /\ NoHarness
    \/ Commit("s1") /\ NoHarness
    \/ \E llm \in LlmOutcomes :
          Analyze("s1", <<"a">>, GoodResponse, llm, "ok") /\ NoHarness
    \/ View("s1") /\ NoHarness
    \/ History("s1") /\ NoHarness
    \/ Finish("s1") /\ NoHarness
    \/ StorageDown /\ NoHarness
    \/ StorageUp /\ NoHarness

Spec == Init /\ [][Next]_vars

----------------------------------------------------------------------------
\* SpecInserts: the sessions submit concurrently.
NextInserts ==
    \/ \E s \in Sessions, f \in Forms : Press(s, f, MaxConcurrentReports) /\ NoHarness
    \/ \E s \in Sessions : Commit(s) /\ NoHarness
    \/ \E s \in Sessions : Analyze(s, <<"a">>, GoodResponse, "ok", "ok") /\ NoHarness
    \/ \E s \in Sessions : View(s) /\ NoHarness
    \/ \E s \in Sessions : History(s) /\ NoHarness
    \/ \E s \in Sessions : Finish(s) /\ NoHarness
    \/ StorageDown /\ NoHarness
    \/ StorageUp /\ NoHarness

SpecInserts == Init /\ [][NextInserts]_vars

----------------------------------------------------------------------------
\* SpecAdvice: one session, every outcome of the three providers, any set
\* of configured secrets, and time passing.
InitAdvice ==
    /\ AppIdle
    /\ secrets \in SUBSET SecretKeys
    /\ ScoreIdle
    /\ WeatherIdle

NextAdvice ==
    \/ \E f \in Forms : Press("s1", f, MaxAdviceReports) /\ NoHarness
    \/ Commit("s1") /\ NoHarness
    \/ \E city \in Cities, resp \in Responses, llm \in LlmOutcomes, tts \in TtsOutcomes :
          Analyze("s1", city, resp, llm, tts) /\ NoHarness
    \/ View("s1") /\ NoHarness
    \/ History("s1") /\ NoHarness
    \/ Finish("s1") /\ NoHarness
    \/ Tick /\ NoHarness

SpecAdvice == InitAdvice /\ [][NextAdvice]_vars

----------------------------------------------------------------------------
\* SpecScore: calculate_score on every form the widgets can produce, and the
\* score line of the report built from it.
ScoreInputs ==
    [farmer_name : {""}, ph : PhMin..PhMax, nitrogen : Levels,
     phosphorus : Levels, potassium : Levels, organic : Levels]

InitScore ==
    /\ AppOff
    /\ WeatherIdle
    /\ score_pc = "input"
    /\ score_in \in ScoreInputs
    /\ score_out = 0
    /\ score_shown = <<>>

ScoreStep ==
    /\ score_pc = "input"
    /\ score_out' = calculate_score(score_in.ph, score_in.nitrogen,
                                    score_in.phosphorus, score_in.potassium,
                                    score_in.organic)
    /\ score_pc' = "scored"
    /\ UNCHANGED <<score_in, score_shown>>

ReportStep ==
    /\ score_pc = "scored"
    /\ score_shown' = final_report_template(score_out, Placeholder).score
    /\ score_pc' = "reported"
    /\ UNCHANGED <<score_in, score_out>>

NextScore ==
    \/ ScoreStep /\ NoApp /\ UNCHANGED weatherVars
    \/ ReportStep /\ NoApp /\ UNCHANGED weatherVars

SpecScore == InitScore /\ [][NextScore]_vars

----------------------------------------------------------------------------
\* SpecWeather: get_weather on every key, city and provider outcome.
WeatherInputs == [api_key : {"", "key"}, city : Cities, resp : Responses]

InitWeather ==
    /\ AppOff
    /\ ScoreIdle
    /\ weather_pc = "call"
    /\ weather_in \in WeatherInputs
    /\ weather_out = [raised |-> FALSE, value |-> Placeholder]

WeatherStep ==
    /\ weather_pc = "call"
    /\ weather_out' = get_weather(weather_in.api_key, weather_in.city, weather_in.resp)
    /\ weather_pc' = "returned"
    /\ UNCHANGED weather_in

NextWeather == WeatherStep /\ NoApp /\ UNCHANGED scoreVars

SpecWeather == InitWeather /\ [][NextWeather]_vars

----------------------------------------------------------------------------
\* Properties

AllLow(f) ==
    /\ f.nitrogen = "Low"
    /\ f.phosphorus = "Low"
    /\ f.potassium = "Low"
    /\ f.organic = "Low"

Deduction(f) ==
    (IF f.ph > 80 \/ f.ph < 55 THEN 15 ELSE 0)
    + (IF f.nitrogen = "Low" THEN 20 ELSE 0)
    + (IF f.phosphorus = "Low" THEN 15 ELSE 0)
    + (IF f.potassium = "Low" THEN 15 ELSE 0)
    + (IF f.organic = "Low" THEN 20 ELSE 0)

\* C1: for pH in [0, 14] in tenths and every combination of levels,
\* calculate_score returns max(0, 100 - d), d being the sum of the five
\* penalties 15 (pH > 8.0 or pH < 5.5), 20 (nitrogen Low), 15 (phosphorus
\* Low), 15 (potassium Low), 20 (organic carbon Low); pH exactly 5.5 and
\* exactly 8.0 take no pH penalty, and Medium and High cost nothing.
C1_ScoreIsHundredMinusPenalties ==
    score_pc \in {"scored", "reported"} =>
        /\ score_out = Max(0, 100 - Deduction(score_in))
        /\ (score_in.ph \in {55, 80}
            /\ "Low" \notin {score_in.nitrogen, score_in.phosphorus,
                             score_in.potassium, score_in.organic})
           => score_out = 100

C1_Witness ==
    /\ score_pc = "scored"
    /\ score_in.ph = 80
    /\ score_in.nitrogen = "Low"
    /\ score_in.phosphorus = "High"
    /\ score_in.potassium = "Medium"
    /\ score_in.organic = "Low"
    /\ score_out = 60

\* C2: for every valid sample the score is an integer in [0, 100], and so
\* is the score written into the final report.
C2_ScoreInRange ==
    /\ score_pc \in {"scored", "reported"} => score_out \in 0..100
    /\ score_pc = "reported" => StrToInt(score_shown) \in 0..100

C2_Witness ==
    /\ score_pc = "reported"
    /\ score_in.ph = 140
    /\ AllLow(score_in)
    /\ score_shown = <<"1", "5">>

\* C3 as stated: the score of pH 9.0 with all four levels Low is 0.
C3_Original ==
    (score_pc \in {"scored", "reported"} /\ score_in.ph = 90 /\ AllLow(score_in))
        => score_out = 0

\* C3 as amended: the score of pH 9.0 with all four levels Low is 15.
C3_AllPenaltiesScoreFifteen ==
    (score_pc \in {"scored", "reported"} /\ score_in.ph = 90 /\ AllLow(score_in))
        => score_out = 15

C3_Witness ==
    /\ score_pc = "scored"
    /\ score_in.ph = 90
    /\ AllLow(score_in)

\* C4: an insert followed immediately by the history query returns the
\* inserted record as the first element, whatever reads came before.
C4_InsertThenHistoryShowsRecord ==
    \A s \in Sessions :
        (pc[s] = "done" /\ report_id[s] # 0 /\ MaxId(store) = report_id[s])
            => /\ reports[s] # <<>>
               /\ reports[s][1].id = report_id[s]

IsHighestIdsDescending(r, rows) ==
    /\ Len(r) <= HistoryLimit
    /\ Len(r) <= Len(rows)
    /\ Len(rows) < HistoryLimit => Len(r) = Len(rows)
    /\ Len(r) = (IF Len(rows) < HistoryLimit THEN Len(rows) ELSE HistoryLimit)
    /\ \A i \in 1..Len(r) : \E j \in 1..Len(rows) : rows[j] = r[i]
    /\ \A i \in 1..(Len(r) - 1) : r[i].id > r[i + 1].id
    /\ \A j \in 1..Len(rows) :
           (\E i \in 1..Len(r) : r[i] = rows[j])
           \/ (\A i \in 1..Len(r) : rows[j].id < r[i].id)

\* C5: in every store state the history query returns at most HistoryLimit
\* records and at most as many as were inserted, all of them when fewer
\* exist, and exactly the highest-id records in strictly descending id.
C5_HistoryIsHighestIds ==
    [][\A s \in Sessions :
          (pc[s] = "history" /\ pc'[s] = "done")
              => IsHighestIdsDescending(reports'[s], store')]_vars

IsPrefix(a, b) == Len(a) <= Len(b) /\ SubSeq(b, 1, Len(a)) = a

C6_State ==
    /\ \A i, j \in 1..Len(store) : i # j => store[i].id # store[j].id
    /\ \A s \in Sessions : report_id[s] # 0 => report_id[s] > startMax[s]
    /\ \A s, t \in Sessions :
           (s # t /\ report_id[s] # 0 /\ report_id[t] # 0)
               => report_id[s] # report_id[t]
    /\ \A s \in Sessions :
           report_id[s] # 0 => \E i \in 1..Len(store) : store[i].id = report_id[s]

\* C6: concurrent submissions get pairwise distinct ids, each greater than
\* every id stored when its insert started, and the stored records are
\* never changed or removed.
C6_DistinctIncreasingIds ==
    /\ []C6_State
    /\ [][IsPrefix(store, store')]_vars

C6_Witness ==
    /\ pc["s1"] = "analyze"
    /\ pc["s2"] = "analyze"
    /\ startMax["s1"] = 0
    /\ startMax["s2"] = 0
    /\ report_id["s1"] = 2
    /\ report_id["s2"] = 1

NonBlank(city) == \E i \in 1..Len(city) : city[i] # " "

\* C7: get_weather never raises; it returns the placeholder when the key is
\* missing, the city is empty or blank, the request fails or the response
\* lacks the expected fields, and a summary only when the key is present,
\* the city is non-blank and the response is well-formed.
C7_WeatherNeverRaises ==
    weather_pc = "returned" =>
        /\ ~weather_out.raised
        /\ (\/ weather_in.api_key = ""
            \/ ~NonBlank(weather_in.city)
            \/ weather_in.resp.raises
            \/ ~WellFormed(weather_in.resp.data))
           => weather_out.value = Placeholder
        /\ weather_out.value # Placeholder =>
               /\ weather_out.value.kind = "summary"
               /\ weather_in.api_key # ""
               /\ NonBlank(weather_in.city)
               /\ ~weather_in.resp.raises
               /\ WellFormed(weather_in.resp.data)

C7_Witness ==
    /\ weather_pc = "returned"
    /\ weather_in.api_key # ""
    /\ weather_in.city = <<" ", "a">>
    /\ ~weather_in.resp.raises
    /\ weather_in.resp.data = [main |-> [temp |-> 30], weather |-> <<>>]
    /\ weather_out = [raised |-> FALSE, value |-> Placeholder]

\* C8: no failure of the weather lookup, the LLM call or the speech
\* synthesis, a missing credential included, is raised into the submission:
\* no run ends by an exception of a collaborator.
C8_NoCollaboratorFailureRaised ==
    \A s \in Sessions :
        ~(pc[s] = "crashed" /\ crash[s] \in {"secrets", "weather", "llm", "tts"})

\* C9: get_analysis is cached on its arguments with an expiry: a call with
\* cached arguments before the expiry returns the cached text without
\* calling the provider, and a call after the expiry calls the provider
\* again, which renews the entry.
C9_AnalysisCacheExpires ==
    [][\A s \in Sessions :
          LET key == AnalysisKey(form[s], final_report'[s].weather)
          IN  (pc[s] = "analyze" /\ pc'[s] = "history" /\ Cached(analysisCache, key))
                  => IF now - Entry(analysisCache, key).at < ExpiryTicks
                     THEN /\ analysisCache' = analysisCache
                          /\ final_report'[s].analysis = Entry(analysisCache, key).text
                     ELSE Entry(analysisCache', key).at = now]_vars

\* C10: with the database unavailable a submission fails recoverably: the
\* store is unchanged and the run does not end by an unhandled exception.
C10_StorageFailureHandled ==
    /\ [][\A s \in Sessions :
             (pc[s] = "commit" /\ ~dbUp /\ pc'[s] # "commit") => store' = store]_vars
    /\ [](\A s \in Sessions :
             ~(pc[s] = "crashed" /\ button[s] /\ crash[s] = "storage"))
====
